---- MODULE Spec2Model ----
(***************************************************************************)
(* Order fulfilment core of the RK e-commerce backend: the order routes    *)
(* (routes/orders.js), the catalog stock write (routes/products.js) and    *)
(* the product stock they share.                                           *)
(*                                                                         *)
(* Every route handler is an async function: between two awaits it runs    *)
(* without interruption, at an await another request may run.  A handler   *)
(* is therefore one action per await-delimited step, and a request record  *)
(* carries the handler's local variables from step to step.                *)
(*                                                                         *)
(* Numbers are JavaScript numbers, not integers.  The model writes the     *)
(* number n as the integer n * Unit, so that fractions with denominator    *)
(* Unit are representable and "is an integer" is a checkable property.     *)
(*                                                                         *)
(* req.user (identity and role) is attached to the request by the identity *)
(* collaborator; the handlers read it as an input.                         *)
(***************************************************************************)
EXTENDS Integers, Sequences, FiniteSets, TLC

\* ---------------------------------------------------------------- bounds
Unit == 2
MaxInFlight == 2
MaxOrders == 2
MaxCalls == 3
MaxLines == 2
MaxItems == 2
MaxCategories == 2

N(n) == n * Unit
IsInteger(x) == x % Unit = 0

Reqs == 1..MaxInFlight
Products == {"A", "B"}
\* The product that order, catalog and most cart requests name; B is only
\* ever put into carts.
Contended == {"A"}
UnknownProduct == "X"
ProductRefs == Products \cup {UnknownProduct}
Users == {"u1", "u2"}
\* req.user.role of each identity
RoleOf == [u \in Users |-> IF u = "u1" THEN "user" ELSE "admin"]
QtyInputs == {N(1), N(3)}
StockInputs == {0 - N(1), 1, N(5)}
InitStock == [p \in Products |-> N(5)]
InitPrice == [p \in Products |-> N(10)]

Statuses == {"pending", "processing", "shipped", "delivered", "cancelled"}
StatusInputs == {"pending", "shipped", "delivered", "cancelled", "bogus"}
\* req.body.quantity of the cart routes: a JSON number, or the text a form
\* (express.urlencoded) or a JSON string carries; 0 fails isInt({ min: 1 }).
CartQtyInputs ==
    {[n |-> N(1), text |-> FALSE], [n |-> N(3), text |-> FALSE],
     [n |-> N(1), text |-> TRUE], [n |-> 0, text |-> FALSE]}
ItemRefs == 1..MaxItems
NoDate == 0
NoSnap == [none |-> TRUE]

\* An optional number of a request body (tax, shipping, discount).
Omitted == [given |-> FALSE, n |-> 0]
Given(n) == [given |-> TRUE, n |-> n]
\* Payment methods the Order schema knows.
KnownMethods == {"credit_card"}
\* req.body of POST /api/orders besides items: whether every field of
\* shippingAddress is filled in, paymentMethod ("" when empty or missing) and
\* the adjustments.
PlainBody(fieldsOk) ==
    [address |-> fieldsOk, method |-> "credit_card",
     tax |-> Omitted, shipping |-> Omitted, discount |-> Omitted]

\* No category request by id has been answered yet.
NoLookup ==
    [op |-> "none", id |-> <<>>, code |-> 0, hit |-> <<>>, before |-> <<>>,
     after |-> <<>>]

VARIABLES
    products,   \* Product collection: id -> [name, price, stock, isActive]
    orders,     \* Order collection: id -> order document (ids handed out in sequence)
    nextId,     \* number of order documents ever created
    carts,      \* Cart collection: a sequence of cart documents [id, user, items, v]
    nextItem,   \* number of cart documents and cart lines ever created (their _id)
    req,        \* requests in progress: each handler's position and local variables
    calls,      \* number of requests received so far (also the clock of new Date())
    plain,      \* history: so far only placeOrder and non-privileged cancelOrRemove
                \* requests were received (no status update, catalog write or
                \* privileged removal)
    categories, \* Category collection: a sequence of documents [id, categoryId, description]
    lookup      \* the last category request by id and its answer

vars == <<products, orders, nextId, carts, nextItem, req, calls, plain,
          categories, lookup>>

\* ---------------------------------------------------------------- helpers
\* Sum of the quantities of product p over the lines of an item list.
RECURSIVE QtyOf(_, _)
QtyOf(items, p) ==
    IF items = <<>> THEN 0
    ELSE (IF Head(items).product = p THEN Head(items).quantity ELSE 0)
         + QtyOf(Tail(items), p)

Lines == [product : Contended, quantity : QtyInputs]
            \cup {[product |-> UnknownProduct, quantity |-> N(1)]}
\* Item lists of a request body. The loop of the handler returns at the first
\* unknown product and never reads the lines after it, so an unknown product
\* is only enumerated as the last line of a list.
ItemLists ==
    {l \in UNION {[1..n -> Lines] : n \in 0..MaxLines} :
        \A i \in 1..Len(l) : l[i].product = UnknownProduct => i = Len(l)}

\* Schema validator of Product.stock: min: [0, 'Stock cannot be negative'].
StockValid(s) == s >= 0

\* The local variables of a handler as a request enters it. req holds the
\* requests in progress, in the order of their arrival.
IdleReq ==
    [pc |-> "idle", op |-> "none", user |-> "u1", role |-> "user",
     items |-> <<>>, id |-> 0, status |-> "pending", idx |-> 0,
     pid |-> "A", pstock |-> 0, orderItems |-> <<>>, doc |-> NoSnap,
     qty |-> NoSnap, pdoc |-> NoSnap, body |-> PlainBody(TRUE), code |-> 0, err |-> "none", pre |-> NoSnap]

Active(r) == r \in DOMAIN req
Running(r) == Active(r) /\ req[r].pc # "done"
PlacesInFlight == Cardinality({r \in DOMAIN req : req[r].op = "placeOrder" /\ Running(r)})

\* A finished handler answers at once: the "done" position only shows the
\* response, and nothing else happens before the response is out.
Answered == \A s \in DOMAIN req : req[s].pc # "done"
At(r, pc) == Active(r) /\ req[r].pc = pc /\ Answered

\* What a handler observed at its start, kept only while the call runs alone.
Snapshot == [products |-> products, orders |-> orders, carts |-> carts]
Alone(r) == DOMAIN req \subseteq {r}

\* A request starting (or a catalog write) ends the isolation of the others.
Disturbed(rq, r) ==
    [s \in DOMAIN rq |-> IF s = r THEN rq[s] ELSE [rq[s] EXCEPT !.pre = NoSnap]]

Begin(r, rec) ==
    /\ r = Len(req) + 1
    /\ Answered
    /\ calls < MaxCalls
    /\ calls' = calls + 1
    /\ req' = Disturbed(Append(req,
                 [rec EXCEPT !.pre = IF Alone(r) THEN Snapshot ELSE NoSnap]), r)

Finish(rec, code, err) ==
    [rec EXCEPT !.pc = "done", !.code = code, !.err = err,
                !.pstock = IdleReq.pstock, !.orderItems = IdleReq.orderItems,
                !.doc = IdleReq.doc, !.pdoc = IdleReq.pdoc]

Init ==
    /\ products = [p \in Products |->
                     [name |-> p, price |-> InitPrice[p], stock |-> InitStock[p],
                      isActive |-> TRUE]]
    /\ orders = <<>>
    /\ nextId = 0
    /\ carts = <<>>
    /\ nextItem = 0
    /\ req = <<>>
    /\ calls = 0
    /\ plain = TRUE
    /\ categories = <<>>
    /\ lookup = NoLookup

\* ------------------------------------------------- POST /api/orders
\* express-validator chain and validationResult: items is an array of at least
\* one element, the address fields and paymentMethod are not empty.
ShapeValid(items, fieldsOk) == Len(items) >= 1 /\ fieldsOk

\* The notEmpty() validators of the shippingAddress fields and paymentMethod.
FieldsOk(body) == body.address /\ body.method # ""

StartPlaceBody(r, u, items, body) ==
    /\ r = Len(req) + 1
    /\ nextId + PlacesInFlight < MaxOrders
    /\ Begin(r, IF ShapeValid(items, FieldsOk(body))
                THEN [IdleReq EXCEPT !.pc = "place_find", !.op = "placeOrder",
                         !.user = u, !.role = RoleOf[u], !.items = items, !.idx = 1,
                         !.body = body]
                ELSE Finish([IdleReq EXCEPT !.op = "placeOrder", !.user = u,
                               !.role = RoleOf[u], !.items = items, !.body = body],
                            400, "ValidationError"))
    /\ UNCHANGED <<nextItem, products, orders, nextId, categories, lookup, carts, plain>>

\* A request whose body has a known payment method and no adjustments.
StartPlace(r, u, items, fieldsOk) == StartPlaceBody(r, u, items, PlainBody(fieldsOk))

\* A line whose total is the unit price.
OrderLineOfOne(p, q) ==
    [product |-> p, name |-> products[p].name, quantity |-> q,
     price |-> products[p].price, total |-> products[p].price]

\* The snapshot line pushed to orderItems.
OrderLine(p, q) ==
    [product |-> p, name |-> products[p].name, quantity |-> q,
     price |-> products[p].price, total |-> (products[p].price * q) \div Unit]

\* The stock check of one line: product.stock < item.quantity rejects the line.
Insufficient(s, q) == s < q

\* An item of the body may come without a quantity (item.quantity undefined).
HasQuantity(line) == "quantity" \in DOMAIN line
\* The value of arithmetic on undefined; the Number type of the schema
\* refuses it, as the validator refuses a negative stock.
NotANumber == 0 - 1
\* The line pushed for an item without quantity: quantity undefined, total NaN.
OrderLineWithoutQuantity(p) ==
    [product |-> p, name |-> products[p].name, price |-> products[p].price,
     total |-> NotANumber]

\* Product.findById, the not-found and stock checks, orderItems.push and the
\* in-memory product.stock -= item.quantity, up to the await of product.save().
PlaceFind(r) ==
    /\ At(r, "place_find")
    /\ LET line == req[r].items[req[r].idx]
           p == line.product
       IN  req' = [req EXCEPT ![r] =
              IF p \notin Products THEN Finish(@, 404, "NotFound")
              ELSE IF ~HasQuantity(line)
                   THEN \* product.stock < undefined is false
                        [@ EXCEPT !.pc = "place_save", !.pid = p,
                            !.pstock = NotANumber,
                            !.orderItems = Append(req[r].orderItems,
                                                  OrderLineWithoutQuantity(p))]
              ELSE IF Insufficient(products[p].stock, line.quantity)
                   THEN Finish(@, 400, "InsufficientStock")
              ELSE [@ EXCEPT !.pc = "place_save", !.pid = p,
                       !.pstock = products[p].stock - line.quantity,
                       !.orderItems = Append(req[r].orderItems,
                                             OrderLine(p, line.quantity))]]
    /\ UNCHANGED <<nextItem, products, orders, nextId, categories, lookup, carts, calls, plain>>

\* await product.save(): validates the document and writes the stock it holds.
PlaceSave(r) ==
    /\ At(r, "place_save")
    /\ IF StockValid(req[r].pstock)
       THEN /\ products' = [products EXCEPT ![req[r].pid].stock = req[r].pstock]
            /\ req' = [req EXCEPT ![r] =
                 IF @.idx = Len(@.items)
                 THEN [@ EXCEPT !.pc = "place_create"]
                 ELSE [@ EXCEPT !.pc = "place_find", !.idx = req[r].idx + 1]]
       ELSE /\ req' = [req EXCEPT ![r] = Finish(@, 500, "ServerError")]
            /\ UNCHANGED products
    /\ UNCHANGED <<nextItem, orders, nextId, categories, lookup, carts, calls, plain>>

\* Order schema default of status (models/Order.js).
DefaultStatus == "pending"
DefaultPaymentStatus == "pending"

\* tax: tax || 0 (and the same for shipping and discount)
OrZero(a) == IF a.given THEN a.n ELSE 0

\* Sum of the line totals of an order's items.
RECURSIVE SumOfTotals(_)
SumOfTotals(items) ==
    IF items = <<>> THEN 0 ELSE Head(items).total + SumOfTotals(Tail(items))

\* The amounts the Order model derives when a document is saved.
SubtotalOf(items) == SumOfTotals(items)
TotalOf(subtotal, tax, shipping, discount) == subtotal + tax + shipping - discount

NewOrder(u, items, body) ==
    [user |-> u, items |-> items, status |-> DefaultStatus,
     deliveredAt |-> NoDate, paymentStatus |-> DefaultPaymentStatus,
     paymentMethod |-> body.method,
     tax |-> OrZero(body.tax), shipping |-> OrZero(body.shipping),
     discount |-> OrZero(body.discount),
     subtotal |-> SubtotalOf(items),
     total |-> TotalOf(SubtotalOf(items), OrZero(body.tax), OrZero(body.shipping),
                       OrZero(body.discount))]

\* The Order schema accepts the document.
OrderValid(body) == body.method \in KnownMethods

\* await Order.create({...}); a document the schema rejects is thrown to the
\* catch block.
PlaceCreate(r) ==
    /\ At(r, "place_create")
    /\ IF OrderValid(req[r].body)
       THEN /\ nextId' = nextId + 1
            /\ orders' = orders @@
                  (nextId + 1 :> NewOrder(req[r].user, req[r].orderItems, req[r].body))
            /\ req' = [req EXCEPT ![r] = [@ EXCEPT !.pc = "place_clear", !.id = nextId + 1]]
       ELSE /\ req' = [req EXCEPT ![r] = Finish(@, 500, "ServerError")]
            /\ UNCHANGED <<nextId, orders>>
    /\ UNCHANGED <<nextItem, products, carts, calls, plain, categories, lookup>>

\* The cart collection left as it is.
KeepCarts(cs, u) == cs

\* Cart.findOneAndDelete({ user }): removes the first cart document of the user.
RECURSIVE DeleteFirstCart(_, _)
DeleteFirstCart(cs, u) ==
    IF cs = <<>> THEN <<>>
    ELSE IF Head(cs).user = u THEN Tail(cs)
    ELSE <<Head(cs)>> \o DeleteFirstCart(Tail(cs), u)

\* await Cart.findOneAndDelete, then the 201 response.
PlaceClear(r) ==
    /\ At(r, "place_clear")
    /\ carts' = DeleteFirstCart(carts, req[r].user)
    /\ req' = [req EXCEPT ![r] = Finish(@, 201, "none")]
    /\ UNCHANGED <<nextItem, products, orders, nextId, categories, lookup, calls, plain>>

\* A failed cart deletion that also removes the order just created.
PlaceClearFailsAndRemoves(r) ==
    /\ At(r, "place_clear")
    /\ orders' = [i \in DOMAIN orders \ {req[r].id} |-> orders[i]]
    /\ req' = [req EXCEPT ![r] = Finish(@, 500, "ServerError")]
    /\ UNCHANGED <<nextItem, products, nextId, categories, lookup, carts, calls, plain>>

\* await Cart.findOneAndDelete rejects: the catch block answers 500.
PlaceClearFails(r) ==
    /\ At(r, "place_clear")
    /\ req' = [req EXCEPT ![r] = Finish(@, 500, "ServerError")]
    /\ UNCHANGED <<nextItem, products, orders, nextId, categories, lookup, carts, calls, plain>>

\* ------------------------------------------- PUT /api/orders/:id/status
\* body("status").isIn([...]) and validationResult.
StatusValid(st) == st \in Statuses

StartStatus(r, id, st, u) ==
    /\ Begin(r, IF StatusValid(st)
                THEN [IdleReq EXCEPT !.pc = "status_find", !.op = "updateStatus",
                         !.user = u, !.role = RoleOf[u], !.id = id, !.status = st]
                ELSE Finish([IdleReq EXCEPT !.op = "updateStatus", !.user = u,
                               !.role = RoleOf[u], !.id = id, !.status = st],
                            400, "ValidationError"))
    /\ plain' = FALSE
    /\ UNCHANGED <<nextItem, products, orders, nextId, categories, lookup, carts>>

\* await Order.findById and the 404 answer.
StatusFind(r) ==
    /\ At(r, "status_find")
    /\ LET q == req[r]
       IN  req' = [req EXCEPT ![r] =
              IF q.id \notin DOMAIN orders THEN Finish(q, 404, "NotFound")
              ELSE [q EXCEPT !.pc = "status_save", !.doc = orders[q.id]]]
    /\ UNCHANGED <<nextItem, products, orders, nextId, categories, lookup, carts, calls, plain>>

\* The status alone is assigned.
AssignedStatusOnly(doc, st, now) == [doc EXCEPT !.status = st]

\* order.status = req.body.status, and for "delivered" the delivery stamp and
\* the payment status: the fields the handler assigns, as they are in the
\* document after the assignment.
Assigned(doc, st, now) ==
    IF st = "delivered"
    THEN [doc EXCEPT !.status = st, !.deliveredAt = now, !.paymentStatus = "paid"]
    ELSE [doc EXCEPT !.status = st]

\* document.save() sends the paths whose value changed since the document was
\* loaded; a save with no changed path sends nothing.
Written(stored, loaded, local) ==
    [stored EXCEPT
       !.status = IF local.status # loaded.status THEN local.status ELSE @,
       !.deliveredAt = IF local.deliveredAt # loaded.deliveredAt
                       THEN local.deliveredAt ELSE @,
       !.paymentStatus = IF local.paymentStatus # loaded.paymentStatus
                         THEN local.paymentStatus ELSE @]

\* await order.save() of a loaded order document whose local copy is `local`:
\* an update of a document that is gone rejects (DocumentNotFoundError).
SaveOrder(r, local, code) ==
    IF local = req[r].doc
    THEN /\ req' = [req EXCEPT ![r] = Finish(@, code, "none")]
         /\ UNCHANGED orders
    ELSE IF req[r].id \notin DOMAIN orders
    THEN /\ req' = [req EXCEPT ![r] = Finish(@, 500, "ServerError")]
         /\ UNCHANGED orders
    ELSE /\ orders' = [orders EXCEPT ![req[r].id] = Written(@, req[r].doc, local)]
         /\ req' = [req EXCEPT ![r] = Finish(@, code, "none")]

StatusSave(r) ==
    /\ At(r, "status_save")
    /\ SaveOrder(r, Assigned(req[r].doc, req[r].status, calls), 200)
    /\ UNCHANGED <<nextItem, products, nextId, categories, lookup, carts, calls, plain>>

\* ------------------------------------------------ DELETE /api/orders/:id
StartCancel(r, id, u) ==
    /\ Begin(r, [IdleReq EXCEPT !.pc = "cancel_find", !.op = "cancelOrRemove",
                    !.user = u, !.role = RoleOf[u], !.id = id])
    /\ plain' = (plain /\ RoleOf[u] # "admin")
    /\ UNCHANGED <<nextItem, products, orders, nextId, categories, lookup, carts>>

\* The ownership test with its comparison inverted.
NotAuthorizedInverted(owner, u, role) == owner = u /\ role # "admin"

\* order.user !== req.user._id && req.user.role !== "admin"
NotAuthorized(owner, u, role) == owner # u /\ role # "admin"

\* The restoring branch without its test of the order's status.
RestoresStockAlways(role, st) == role # "admin"

\* The restoring branch without its test of the role.
RestoresStockAnyRole(role, st) == st # "cancelled"

\* The branch that restores stock: req.user.role !== "admin" &&
\* order.status !== "cancelled".
RestoresStock(role, st) == role # "admin" /\ st # "cancelled"

\* await Order.findById, the 404 and 403 answers and the choice of branch.
CancelFind(r) ==
    /\ At(r, "cancel_find")
    /\ LET q == req[r]
       IN  req' = [req EXCEPT ![r] =
              IF q.id \notin DOMAIN orders THEN Finish(q, 404, "NotFound")
              ELSE IF NotAuthorized(orders[q.id].user, q.user, q.role)
                   THEN Finish(q, 403, "Forbidden")
              ELSE IF RestoresStock(q.role, orders[q.id].status)
                   THEN [q EXCEPT !.doc = orders[q.id], !.idx = 1,
                            !.pc = IF orders[q.id].items = <<>>
                                   THEN "cancel_save" ELSE "cancel_pfind"]
              ELSE IF q.role = "admin"
                   THEN [q EXCEPT !.doc = orders[q.id], !.pc = "cancel_delete"]
              ELSE Finish(q, 200, "none")]
    /\ UNCHANGED <<nextItem, products, orders, nextId, categories, lookup, carts, calls, plain>>

\* product.stock += item.quantity
Restored(s, q) == s + q

\* await Product.findById(item.product) of one order line; a product that is
\* gone is skipped.
CancelProductFind(r) ==
    /\ At(r, "cancel_pfind")
    /\ LET q == req[r]
           line == q.doc.items[q.idx]
       IN  req' = [req EXCEPT ![r] =
              IF line.product \in Products
              THEN [q EXCEPT !.pc = "cancel_psave", !.pid = line.product,
                       !.pstock = Restored(products[line.product].stock,
                                           line.quantity)]
              ELSE IF q.idx = Len(q.doc.items)
                   THEN [q EXCEPT !.pc = "cancel_save"]
              ELSE [q EXCEPT !.idx = q.idx + 1]]
    /\ UNCHANGED <<nextItem, products, orders, nextId, categories, lookup, carts, calls, plain>>

\* await product.save() of one restored line.
CancelProductSave(r) ==
    /\ At(r, "cancel_psave")
    /\ IF StockValid(req[r].pstock)
       THEN /\ products' = [products EXCEPT ![req[r].pid].stock = req[r].pstock]
            /\ req' = [req EXCEPT ![r] =
                 IF @.idx = Len(@.doc.items)
                 THEN [@ EXCEPT !.pc = "cancel_save"]
                 ELSE [@ EXCEPT !.pc = "cancel_pfind", !.idx = req[r].idx + 1]]
       ELSE /\ req' = [req EXCEPT ![r] = Finish(@, 500, "ServerError")]
            /\ UNCHANGED products
    /\ UNCHANGED <<nextItem, orders, nextId, categories, lookup, carts, calls, plain>>

\* await product.save() of one restored line rejects (the database refuses or
\* does not answer the write): the catch block answers 500 and the handler
\* is over.
CancelProductSaveFails(r) ==
    /\ At(r, "cancel_psave")
    /\ req' = [req EXCEPT ![r] = Finish(@, 500, "ServerError")]
    /\ UNCHANGED <<nextItem, products, orders, nextId, categories, lookup, carts, calls, plain>>

\* order.status = "cancelled"; await order.save()
CancelSave(r) ==
    /\ At(r, "cancel_save")
    /\ SaveOrder(r, [req[r].doc EXCEPT !.status = "cancelled"], 200)
    /\ UNCHANGED <<nextItem, products, nextId, categories, lookup, carts, calls, plain>>

\* await order.deleteOne()
CancelDelete(r) ==
    /\ At(r, "cancel_delete")
    /\ orders' = [i \in DOMAIN orders \ {req[r].id} |-> orders[i]]
    /\ req' = [req EXCEPT ![r] = Finish(@, 200, "none")]
    /\ UNCHANGED <<nextItem, products, nextId, categories, lookup, carts, calls, plain>>

\* ------------------------------------------------------- /api/cart
\* Cart.findOne({ user }): the position of the user's first cart document, 0
\* when there is none.
CartIndex(cs, u) ==
    IF \E i \in DOMAIN cs : cs[i].user = u
    THEN CHOOSE i \in DOMAIN cs : cs[i].user = u /\ \A j \in 1..(i - 1) : cs[j].user # u
    ELSE 0

\* The stored document a loaded cart document is saved to, 0 when it is gone.
StoredIndex(cs, id) ==
    IF \E i \in DOMAIN cs : cs[i].id = id
    THEN CHOOSE i \in DOMAIN cs : cs[i].id = id
    ELSE 0

\* The owner key of the Cart store admits every owner.
OwnerKeyIgnored(cs, u) == TRUE

\* Cart rows are keyed by owner: a second cart document of an owner is refused.
OwnerKeyFree(cs, u) == \A i \in DOMAIN cs : cs[i].user # u

NewCart(u) == [id |-> nextItem + 1, user |-> u, items |-> <<>>, v |-> 0]

\* cart.items.findIndex(item => item.product.toString() === product), from 1;
\* 0 when no line has the product.
LineOfProduct(items, p) ==
    IF \E j \in DOMAIN items : items[j].product = p
    THEN CHOOSE j \in DOMAIN items :
            items[j].product = p /\ \A k \in 1..(j - 1) : items[k].product # p
    ELSE 0

\* cart.items.id(itemId), from 1; 0 when no line has the id.
LineOfId(items, id) ==
    IF \E j \in DOMAIN items : items[j].id = id
    THEN CHOOSE j \in DOMAIN items : items[j].id = id
    ELSE 0

\* isInt({ min: 1 }) accepts a number and its text alike and leaves the value
\* as it came.
QuantityValid(q) == IsInteger(q.n) /\ q.n >= N(1)

\* Decimal text of a after decimal text of b, read as a number.
RECURSIVE Shift(_, _)
Shift(a, b) == IF b < 10 THEN a * 10 ELSE Shift(a * 10, b \div 10)
Concat(a, b) == N(Shift(a \div Unit, b \div Unit) + b \div Unit)

\* cart.items[itemIndex].quantity + quantity: JavaScript + adds two numbers
\* and concatenates when the right operand is text.
Plus(a, q) == IF q.text THEN Concat(a, q.n) ELSE a + q.n

\* GET /api/cart
StartGet(r, u) ==
    /\ Begin(r, [IdleReq EXCEPT !.pc = "get_find", !.op = "getOrCreate",
                    !.user = u, !.role = RoleOf[u]])
    /\ UNCHANGED <<products, orders, nextId, categories, lookup, carts, nextItem, plain>>

\* await Cart.findOne(...).populate(...)
GetFind(r) ==
    /\ At(r, "get_find")
    /\ req' = [req EXCEPT ![r] =
          IF CartIndex(carts, req[r].user) # 0 THEN Finish(@, 200, "none")
          ELSE [@ EXCEPT !.pc = "get_create"]]
    /\ UNCHANGED <<products, orders, nextId, categories, lookup, carts, nextItem, calls, plain>>

\* await Cart.create({ user, items: [] }); a refused insert is thrown to the
\* catch block.
CreateCart(r, then) ==
    IF OwnerKeyFree(carts, req[r].user)
    THEN /\ carts' = Append(carts, NewCart(req[r].user))
         /\ nextItem' = nextItem + 1 + then.lines
         /\ req' = [req EXCEPT ![r] = then.rec]
    ELSE /\ req' = [req EXCEPT ![r] = Finish(@, 500, "ServerError")]
         /\ UNCHANGED <<carts, nextItem>>

GetCreate(r) ==
    /\ At(r, "get_create")
    /\ CreateCart(r, [lines |-> 0, rec |-> Finish(req[r], 200, "none")])
    /\ UNCHANGED <<products, orders, nextId, categories, lookup, calls, plain>>

\* POST /api/cart: validationResult, then const { product, quantity } = req.body
StartAdd(r, u, p, q) ==
    /\ Begin(r, IF QuantityValid(q)
                THEN [IdleReq EXCEPT !.pc = "add_product", !.op = "addItem",
                         !.user = u, !.role = RoleOf[u], !.pid = p, !.qty = q]
                ELSE Finish([IdleReq EXCEPT !.op = "addItem", !.user = u,
                               !.role = RoleOf[u], !.pid = p, !.qty = q],
                            400, "ValidationError"))
    /\ UNCHANGED <<products, orders, nextId, categories, lookup, carts, nextItem, plain>>

\* await Product.findById(product) and the checks of the product document.
AddProductFind(r) ==
    /\ At(r, "add_product")
    /\ LET q == req[r]
       IN  req' = [req EXCEPT ![r] =
              IF q.pid \notin Products THEN Finish(q, 404, "NotFound")
              ELSE IF ~products[q.pid].isActive THEN Finish(q, 400, "Unavailable")
              ELSE IF products[q.pid].stock < q.qty.n
                   THEN Finish(q, 400, "InsufficientStock")
              ELSE [q EXCEPT !.pc = "add_cart", !.pdoc = products[q.pid]]]
    /\ UNCHANGED <<products, orders, nextId, categories, lookup, carts, nextItem, calls, plain>>

\* The pushed line without the product's price.
NewLineWithoutPrice(id, q) ==
    [id |-> id, product |-> q.pid, quantity |-> q.qty.n, price |-> 0]

\* The new line pushed to cart.items; Mongoose casts quantity to a number and
\* gives the line its _id.
NewLine(id, q) ==
    [id |-> id, product |-> q.pid, quantity |-> q.qty.n, price |-> q.pdoc.price]

\* The handler from the loaded (or created) cart to its await cart.save():
\* merge into the line of the product, or push a new line with _id id.
AddToCart(q, cart, id) ==
    LET j == LineOfProduct(cart.items, q.pid)
        newQuantity == Plus(cart.items[j].quantity, q.qty)
    IN  IF j # 0
        THEN IF newQuantity > q.pdoc.stock
             THEN Finish(q, 400, "InsufficientStock")
             ELSE [q EXCEPT !.pc = "add_set", !.idx = j,
                      !.doc = [cart EXCEPT !.items[j].quantity = newQuantity]]
        ELSE [q EXCEPT !.pc = "add_push",
                 !.doc = [cart EXCEPT !.items = Append(@, NewLine(id, q))]]

Pushes(rec) == IF rec.pc = "add_push" THEN 1 ELSE 0

\* await Cart.findOne({ user }) and, with a cart, the merge or push.
AddCartFind(r) ==
    /\ At(r, "add_cart")
    /\ LET i == CartIndex(carts, req[r].user)
           rec == IF i = 0 THEN [req[r] EXCEPT !.pc = "add_create"]
                  ELSE AddToCart(req[r], carts[i], nextItem + 1)
       IN  /\ req' = [req EXCEPT ![r] = rec]
           /\ nextItem' = nextItem + Pushes(rec)
    /\ UNCHANGED <<products, orders, nextId, categories, lookup, carts, calls, plain>>

\* await Cart.create(...), then the push into the new cart.
AddCreate(r) ==
    /\ At(r, "add_create")
    /\ CreateCart(r, [lines |-> 1,
                      rec |-> AddToCart(req[r], NewCart(req[r].user), nextItem + 2)])
    /\ UNCHANGED <<products, orders, nextId, categories, lookup, calls, plain>>

\* cart.save() of a loaded document: the stored document with its _id, or a
\* thrown error when it is gone.
SaveCart(r, written) ==
    LET i == StoredIndex(carts, req[r].doc.id)
    IN  IF i # 0 /\ written[i].ok
        THEN /\ carts' = [carts EXCEPT ![i] = written[i].doc]
             /\ req' = [req EXCEPT ![r] = Finish(@, 200, "none")]
        ELSE /\ req' = [req EXCEPT ![r] = Finish(@, 500, "ServerError")]
             /\ UNCHANGED carts

\* await cart.save() after a push: $push of the new line, the version counted
\* up; then populate and the answer.
AddPush(r) ==
    /\ At(r, "add_push")
    /\ SaveCart(r, [i \in DOMAIN carts |->
           [ok |-> TRUE,
            doc |-> [carts[i] EXCEPT
                       !.items = Append(@, req[r].doc.items[Len(req[r].doc.items)]),
                       !.v = @ + 1]]])
    /\ UNCHANGED <<products, orders, nextId, categories, lookup, nextItem, calls, plain>>

\* A write to one position of the stored items, which Mongoose sends with the
\* version it loaded.
SetLine(stored, loaded, j) ==
    [ok |-> stored.v = loaded.v /\ j \in DOMAIN stored.items,
     doc |-> IF j \in DOMAIN stored.items
             THEN [stored EXCEPT !.items[j].quantity = loaded.items[j].quantity]
             ELSE stored]

\* await cart.save() after a merge: $set of items.<index>.quantity.
AddSet(r) ==
    /\ At(r, "add_set")
    /\ SaveCart(r, [i \in DOMAIN carts |-> SetLine(carts[i], req[r].doc, req[r].idx)])
    /\ UNCHANGED <<products, orders, nextId, categories, lookup, nextItem, calls, plain>>

\* PUT /api/cart/:itemId
StartUpdate(r, u, id, q) ==
    /\ Begin(r, IF QuantityValid(q)
                THEN [IdleReq EXCEPT !.pc = "upd_cart", !.op = "updateItem",
                         !.user = u, !.role = RoleOf[u], !.id = id, !.qty = q]
                ELSE Finish([IdleReq EXCEPT !.op = "updateItem", !.user = u,
                               !.role = RoleOf[u], !.id = id, !.qty = q],
                            400, "ValidationError"))
    /\ UNCHANGED <<products, orders, nextId, categories, lookup, carts, nextItem, plain>>

\* await Cart.findOne({ user }) and cart.items.id(req.params.itemId)
UpdateCartFind(r) ==
    /\ At(r, "upd_cart")
    /\ LET q == req[r]
           i == CartIndex(carts, q.user)
       IN  req' = [req EXCEPT ![r] =
              IF i = 0 THEN Finish(q, 404, "NotFound")
              ELSE IF LineOfId(carts[i].items, q.id) = 0 THEN Finish(q, 404, "NotFound")
              ELSE [q EXCEPT !.pc = "upd_product", !.doc = carts[i],
                       !.idx = LineOfId(carts[i].items, q.id)]]
    /\ UNCHANGED <<products, orders, nextId, categories, lookup, carts, nextItem, calls, plain>>

\* The line's quantity with the body's quantity added to it.
Increased(old, q) == old + q.n

\* item.quantity = req.body.quantity
Replaced(old, q) == q.n

\* await Product.findById(item.product), the stock check and
\* item.quantity = req.body.quantity (reading .stock of a missing product
\* throws).
UpdateProductFind(r) ==
    /\ At(r, "upd_product")
    /\ LET q == req[r]
           p == q.doc.items[q.idx].product
       IN  req' = [req EXCEPT ![r] =
              IF p \notin Products THEN Finish(q, 500, "ServerError")
              ELSE IF products[p].stock < q.qty.n
                   THEN Finish(q, 400, "InsufficientStock")
              ELSE [q EXCEPT !.pc = "upd_save",
                       !.doc = [q.doc EXCEPT !.items[q.idx].quantity =
                                                 Replaced(@, q.qty)]]]
    /\ UNCHANGED <<products, orders, nextId, categories, lookup, carts, nextItem, calls, plain>>

\* await cart.save(): $set of items.<index>.quantity.
UpdateSave(r) ==
    /\ At(r, "upd_save")
    /\ SaveCart(r, [i \in DOMAIN carts |-> SetLine(carts[i], req[r].doc, req[r].idx)])
    /\ UNCHANGED <<products, orders, nextId, categories, lookup, nextItem, calls, plain>>

\* DELETE /api/cart/:itemId
StartRemove(r, u, id) ==
    /\ Begin(r, [IdleReq EXCEPT !.pc = "rem_cart", !.op = "removeItem",
                    !.user = u, !.role = RoleOf[u], !.id = id])
    /\ UNCHANGED <<products, orders, nextId, categories, lookup, carts, nextItem, plain>>

\* The lines without the first one, whatever its id.
PullHead(items, id) == IF items = <<>> THEN <<>> ELSE Tail(items)

\* cart.items.pull(itemId): the lines without the one that has the id.
Pull(items, id) == SelectSeq(items, LAMBDA l : l.id # id)

\* await Cart.findOne({ user }) and cart.items.pull(req.params.itemId)
RemoveCartFind(r) ==
    /\ At(r, "rem_cart")
    /\ LET q == req[r]
           i == CartIndex(carts, q.user)
       IN  req' = [req EXCEPT ![r] =
              IF i = 0 THEN Finish(q, 404, "NotFound")
              ELSE [q EXCEPT !.pc = "rem_save",
                       !.doc = [carts[i] EXCEPT !.items = Pull(@, q.id)]]]
    /\ UNCHANGED <<products, orders, nextId, categories, lookup, carts, nextItem, calls, plain>>

\* await cart.save(): $pull of the _id, the version counted up.
RemoveSave(r) ==
    /\ At(r, "rem_save")
    /\ SaveCart(r, [i \in DOMAIN carts |->
           [ok |-> TRUE,
            doc |-> [carts[i] EXCEPT !.items = Pull(@, req[r].id), !.v = @ + 1]]])
    /\ UNCHANGED <<products, orders, nextId, categories, lookup, nextItem, calls, plain>>

\* DELETE /api/cart
StartClear(r, u) ==
    /\ Begin(r, [IdleReq EXCEPT !.pc = "clr_cart", !.op = "clear",
                    !.user = u, !.role = RoleOf[u]])
    /\ UNCHANGED <<products, orders, nextId, categories, lookup, carts, nextItem, plain>>

\* await Cart.findOne({ user }) and cart.items = []
ClearCartFind(r) ==
    /\ At(r, "clr_cart")
    /\ LET q == req[r]
           i == CartIndex(carts, q.user)
       IN  req' = [req EXCEPT ![r] =
              IF i = 0 THEN Finish(q, 404, "NotFound")
              ELSE [q EXCEPT !.pc = "clr_save", !.doc = [carts[i] EXCEPT !.items = <<>>]]]
    /\ UNCHANGED <<products, orders, nextId, categories, lookup, carts, nextItem, calls, plain>>

\* await cart.save(): $set of the whole array, sent with the loaded version.
ClearSave(r) ==
    /\ At(r, "clr_save")
    /\ SaveCart(r, [i \in DOMAIN carts |->
           [ok |-> carts[i].v = req[r].doc.v,
            doc |-> [carts[i] EXCEPT !.items = <<>>, !.v = @ + 1]]])
    /\ UNCHANGED <<products, orders, nextId, categories, lookup, nextItem, calls, plain>>

\* ------------------------------------------- DELETE /api/products/:id
\* Product.findById, product.isActive = false, product.save(): the soft
\* delete writes isActive only, whatever else runs between its two awaits.
ProductDelete(p) ==
    /\ Answered
    /\ calls < MaxCalls
    /\ calls' = calls + 1
    /\ products' = [products EXCEPT ![p].isActive = FALSE]
    /\ req' = Disturbed(req, 0)
    /\ plain' = FALSE
    /\ UNCHANGED <<orders, nextId, categories, lookup, carts, nextItem>>

\* ---------------------------------------------- PUT /api/products/:id
\* Product.findByIdAndUpdate(id, req.body, { runValidators: true }) with a body
\* that sets stock: one atomic write, rejected when the validator fails.
CatalogUpdate(p, v) ==
    /\ Answered
    /\ calls < MaxCalls
    /\ calls' = calls + 1
    /\ products' = IF StockValid(v) THEN [products EXCEPT ![p].stock = v]
                   ELSE products
    /\ req' = Disturbed(req, 0)
    /\ plain' = FALSE
    /\ UNCHANGED <<nextItem, orders, nextId, categories, lookup, carts>>

\* Schema validator of Product.price: min: [0, 'Price must be positive'].
PriceValid(v) == v >= 0

\* A price change that is also written into the lines of the orders.
RepriceOrderLines(p, v) ==
    /\ Answered
    /\ calls < MaxCalls
    /\ calls' = calls + 1
    /\ products' = [products EXCEPT ![p].price = v]
    /\ orders' = [i \in DOMAIN orders |->
                    [orders[i] EXCEPT !.items =
                        [k \in DOMAIN @ |->
                            IF @[k].product = p THEN [@[k] EXCEPT !.price = v]
                            ELSE @[k]]]]
    /\ req' = Disturbed(req, 0)
    /\ plain' = FALSE
    /\ UNCHANGED <<nextItem, nextId, categories, lookup, carts>>

\* The same route with a body that sets price: one atomic write of that
\* field, rejected when the validator fails.
CatalogReprice(p, v) ==
    /\ Answered
    /\ calls < MaxCalls
    /\ calls' = calls + 1
    /\ products' = IF PriceValid(v) THEN [products EXCEPT ![p].price = v]
                   ELSE products
    /\ req' = Disturbed(req, 0)
    /\ plain' = FALSE
    /\ UNCHANGED <<nextItem, orders, nextId, categories, lookup, carts>>

\* The same route with a body that sets name.
CatalogRename(p, name) ==
    /\ Answered
    /\ calls < MaxCalls
    /\ calls' = calls + 1
    /\ products' = [products EXCEPT ![p].name = name]
    /\ req' = Disturbed(req, 0)
    /\ plain' = FALSE
    /\ UNCHANGED <<nextItem, orders, nextId, categories, lookup, carts>>

\* ------------------------------------------------ /api/categories/:id
\* Texts are sequences of characters.
DecimalDigits == <<"0", "1", "2", "3", "4", "5", "6", "7", "8", "9">>
HexLetters == {"a", "b", "c", "d", "e", "f", "A", "B", "C", "D", "E", "F"}
IsDigit(c) == \E i \in DOMAIN DecimalDigits : DecimalDigits[i] = c
DigitValue(c) == (CHOOSE i \in DOMAIN DecimalDigits : DecimalDigits[i] = c) - 1

\* The decimal digits a text begins with.
RECURSIVE DigitPrefix(_)
DigitPrefix(s) ==
    IF s = <<>> \/ ~IsDigit(Head(s)) THEN <<>>
    ELSE <<Head(s)>> \o DigitPrefix(Tail(s))

RECURSIVE DecimalValue(_)
DecimalValue(d) ==
    IF d = <<>> THEN 0
    ELSE DecimalValue(SubSeq(d, 1, Len(d) - 1)) * 10 + DigitValue(d[Len(d)])

\* parseInt(id) of a text without sign, blanks or 0x prefix: the value of
\* its leading decimal digits, NaN when it begins with none.
ParseInt(s) ==
    IF DigitPrefix(s) = <<>> THEN NotANumber ELSE DecimalValue(DigitPrefix(s))

\* id.match(/^[0-9a-fA-F]{24}$/)
ObjectIdLength == 24
IsObjectId(s) ==
    /\ Len(s) = ObjectIdLength
    /\ \A i \in DOMAIN s : IsDigit(s[i]) \/ s[i] \in HexLetters

\* !id || id === "undefined" || id === "null" || id.trim() === ""
NullText == <<"n", "u", "l", "l">>
UndefinedText == <<"u", "n", "d", "e", "f", "i", "n", "e", "d">>
IdMissing(id) == id = <<>> \/ id = UndefinedText \/ id = NullText

\* Position of the category with the numeric categoryId n, 0 when there is none.
ByCategoryId(cats, n) ==
    IF \E i \in DOMAIN cats : cats[i].categoryId = n
    THEN CHOOSE i \in DOMAIN cats : cats[i].categoryId = n
    ELSE 0

\* Category.findById(id): position of the category with that _id, 0 when there
\* is none; a text that is no ObjectId makes the query throw, which the
\* handler ignores.
ById(cats, id) ==
    IF IsObjectId(id) /\ \E i \in DOMAIN cats : cats[i].id = id
    THEN CHOOSE i \in DOMAIN cats : cats[i].id = id
    ELSE 0

\* The lookup of the three handlers: by categoryId when parseInt(id) is a
\* number, and by _id when that found nothing.
Resolve(cats, id) ==
    IF ParseInt(id) # NotANumber /\ ByCategoryId(cats, ParseInt(id)) # 0
    THEN ByCategoryId(cats, ParseInt(id))
    ELSE ById(cats, id)

\* categorySchema.pre("save"): the next numeric id, 1 for the first category.
RECURSIVE MaxCategoryId(_)
MaxCategoryId(cats) ==
    IF cats = <<>> THEN 0
    ELSE LET m == MaxCategoryId(Tail(cats))
         IN  IF Head(cats).categoryId > m THEN Head(cats).categoryId ELSE m
NextCategoryId(cats) == MaxCategoryId(cats) + 1

\* What the category requests leave alone.
CategoryFrame ==
    /\ calls < MaxCalls
    /\ calls' = calls + 1
    /\ UNCHANGED <<products, orders, nextId, carts, nextItem, req, plain>>

\* POST /api/categories: Category.create(req.body) with a new _id.
CategoryCreate(oid) ==
    /\ Len(categories) < MaxCategories
    /\ \A i \in DOMAIN categories : categories[i].id # oid
    /\ categories' = Append(categories,
          [id |-> oid, categoryId |-> NextCategoryId(categories), description |-> "new"])
    /\ UNCHANGED lookup
    /\ CategoryFrame

\* The answer, with the collection as it was before and after the request.
Answer(op, id, code, hit) ==
    [op |-> op, id |-> id, code |-> code, hit |-> hit, before |-> categories,
     after |-> categories']

\* GET /api/categories/:id
CategoryGet(id) ==
    /\ UNCHANGED categories
    /\ lookup' =
          IF IdMissing(id) THEN Answer("get", id, 400, <<>>)
          ELSE IF Resolve(categories, id) = 0 THEN Answer("get", id, 404, <<>>)
          ELSE Answer("get", id, 200, categories[Resolve(categories, id)].id)
    /\ CategoryFrame

\* PUT /api/categories/:id with a body that sets description.
CategoryUpdate(id, text) ==
    /\ IF IdMissing(id)
       THEN UNCHANGED categories /\ lookup' = Answer("update", id, 400, <<>>)
       ELSE IF Resolve(categories, id) = 0
       THEN UNCHANGED categories /\ lookup' = Answer("update", id, 404, <<>>)
       ELSE /\ categories' = [categories EXCEPT
                                 ![Resolve(categories, id)].description = text]
            /\ lookup' = Answer("update", id, 200, categories[Resolve(categories, id)].id)
    /\ CategoryFrame

\* DELETE /api/categories/:id: the lookup, then Category.deleteOne({ _id }).
CategoryDelete(id) ==
    /\ IF IdMissing(id)
       THEN UNCHANGED categories /\ lookup' = Answer("delete", id, 400, <<>>)
       ELSE IF Resolve(categories, id) = 0
       THEN UNCHANGED categories /\ lookup' = Answer("delete", id, 404, <<>>)
       ELSE /\ categories' = [i \in 1..(Len(categories) - 1) |->
                                 IF i < Resolve(categories, id) THEN categories[i]
                                 ELSE categories[i + 1]]
            /\ lookup' = Answer("delete", id, 200, categories[Resolve(categories, id)].id)
    /\ CategoryFrame

\* The response has been sent; the request is over.
Respond(r) ==
    /\ Active(r)
    /\ req[r].pc = "done"
    /\ req' = [s \in 1..(Len(req) - 1) |-> IF s < r THEN req[s] ELSE req[s + 1]]
    /\ UNCHANGED <<nextItem, products, orders, nextId, categories, lookup, carts, calls, plain>>

\* Requests are accepted while fewer than MaxInFlight are in progress, and
\* handlers interleave at their awaits.
Next ==
    \/ \E r \in Reqs, u \in Users, items \in ItemLists, fieldsOk \in BOOLEAN :
          StartPlace(r, u, items, fieldsOk)
    \/ \E r \in Reqs : PlaceFind(r)
    \/ \E r \in Reqs : PlaceSave(r)
    \/ \E r \in Reqs : PlaceCreate(r)
    \/ \E r \in Reqs : PlaceClear(r)
    \/ \E r \in Reqs, id \in 1..MaxOrders, st \in StatusInputs, u \in Users :
          StartStatus(r, id, st, u)
    \/ \E r \in Reqs : StatusFind(r)
    \/ \E r \in Reqs : StatusSave(r)
    \/ \E r \in Reqs, id \in 1..MaxOrders, u \in Users :
          StartCancel(r, id, u)
    \/ \E r \in Reqs : CancelFind(r)
    \/ \E r \in Reqs : CancelProductFind(r)
    \/ \E r \in Reqs : CancelProductSave(r)
    \/ \E r \in Reqs : CancelSave(r)
    \/ \E r \in Reqs : CancelDelete(r)
    \/ \E p \in Contended, v \in StockInputs : CatalogUpdate(p, v)
    \/ \E r \in Reqs : Respond(r)

Spec == Init /\ [][Next]_vars

\* The same handlers with the requests served one at a time: a request is
\* accepted only when no other request is in progress or unanswered.
\* (the request is then the first and only one in progress).
SeqStartPlace(u, items, fieldsOk) == Alone(1) /\ StartPlace(1, u, items, fieldsOk)
SeqStartStatus(id, st, u) == Alone(1) /\ StartStatus(1, id, st, u)
SeqStartCancel(id, u) == Alone(1) /\ StartCancel(1, id, u)

SeqNext ==
    \/ \E u \in Users, items \in ItemLists, fieldsOk \in BOOLEAN :
          SeqStartPlace(u, items, fieldsOk)
    \/ \E r \in Reqs : PlaceFind(r)
    \/ \E r \in Reqs : PlaceSave(r)
    \/ \E r \in Reqs : PlaceCreate(r)
    \/ \E r \in Reqs : PlaceClear(r)
    \/ \E id \in 1..MaxOrders, st \in StatusInputs, u \in Users :
          SeqStartStatus(id, st, u)
    \/ \E r \in Reqs : StatusFind(r)
    \/ \E r \in Reqs : StatusSave(r)
    \/ \E id \in 1..MaxOrders, u \in Users :
          SeqStartCancel(id, u)
    \/ \E r \in Reqs : CancelFind(r)
    \/ \E r \in Reqs : CancelProductFind(r)
    \/ \E r \in Reqs : CancelProductSave(r)
    \/ \E r \in Reqs : CancelSave(r)
    \/ \E r \in Reqs : CancelDelete(r)
    \/ \E p \in Contended, v \in StockInputs : CatalogUpdate(p, v)
    \/ \E r \in Reqs : Respond(r)

SeqSpec == Init /\ [][SeqNext]_vars

\* One request at a time, with stock writes of a cancellation that may be
\* rejected by the database.
FaultNext ==
    \/ SeqNext
    \/ \E r \in Reqs : CancelProductSaveFails(r)

FaultSpec == Init /\ [][FaultNext]_vars

\* The cart routes, the checkout (placeOrder with at most one line) and the
\* product soft delete, one request at a time.
AddInputs ==
    (Contended \X CartQtyInputs)
       \cup ((ProductRefs \ Contended) \X {[n |-> N(1), text |-> FALSE]})
CheckoutLists == {l \in ItemLists : Len(l) <= 1}

SeqStartGet(u) == Alone(1) /\ StartGet(1, u)
SeqStartAdd(u, p, q) == Alone(1) /\ StartAdd(1, u, p, q)
SeqStartUpdate(u, id, q) == Alone(1) /\ StartUpdate(1, u, id, q)
SeqStartRemove(u, id) == Alone(1) /\ StartRemove(1, u, id)
SeqStartClear(u) == Alone(1) /\ StartClear(1, u)
SeqStartCheckout(u, items) == Alone(1) /\ StartPlace(1, u, items, TRUE)
SeqProductDelete(p) == req = <<>> /\ ProductDelete(p)

CartSeqNext ==
    \/ \E u \in Users : SeqStartGet(u)
    \/ \E r \in Reqs : GetFind(r)
    \/ \E r \in Reqs : GetCreate(r)
    \/ \E u \in Users, pq \in AddInputs : SeqStartAdd(u, pq[1], pq[2])
    \/ \E r \in Reqs : AddProductFind(r)
    \/ \E r \in Reqs : AddCartFind(r)
    \/ \E r \in Reqs : AddCreate(r)
    \/ \E r \in Reqs : AddPush(r)
    \/ \E r \in Reqs : AddSet(r)
    \/ \E u \in Users, id \in ItemRefs, q \in CartQtyInputs : SeqStartUpdate(u, id, q)
    \/ \E r \in Reqs : UpdateCartFind(r)
    \/ \E r \in Reqs : UpdateProductFind(r)
    \/ \E r \in Reqs : UpdateSave(r)
    \/ \E u \in Users, id \in ItemRefs : SeqStartRemove(u, id)
    \/ \E r \in Reqs : RemoveCartFind(r)
    \/ \E r \in Reqs : RemoveSave(r)
    \/ \E u \in Users : SeqStartClear(u)
    \/ \E r \in Reqs : ClearCartFind(r)
    \/ \E r \in Reqs : ClearSave(r)
    \/ \E u \in Users, items \in CheckoutLists : SeqStartCheckout(u, items)
    \/ \E r \in Reqs : PlaceFind(r)
    \/ \E r \in Reqs : PlaceSave(r)
    \/ \E r \in Reqs : PlaceCreate(r)
    \/ \E r \in Reqs : PlaceClear(r)
    \/ \E p \in Contended : SeqProductDelete(p)
    \/ \E r \in Reqs : Respond(r)

CartSeqSpec == Init /\ [][CartSeqNext]_vars

\* The same, with cart deletions of an order placement that may be rejected
\* by the database.
CartFaultNext ==
    \/ CartSeqNext
    \/ \E r \in Reqs : PlaceClearFails(r)

CartFaultSpec == Init /\ [][CartFaultNext]_vars

\* Concurrent GET /api/cart and POST /api/cart requests (each POST asks for
\* one piece of a product).
OnePiece == {pq \in AddInputs : pq[2] = [n |-> N(1), text |-> FALSE]}

CartNext ==
    \/ \E r \in Reqs, u \in Users : StartGet(r, u)
    \/ \E r \in Reqs : GetFind(r)
    \/ \E r \in Reqs : GetCreate(r)
    \/ \E r \in Reqs, u \in Users, pq \in OnePiece : StartAdd(r, u, pq[1], pq[2])
    \/ \E r \in Reqs : AddProductFind(r)
    \/ \E r \in Reqs : AddCartFind(r)
    \/ \E r \in Reqs : AddCreate(r)
    \/ \E r \in Reqs : AddPush(r)
    \/ \E r \in Reqs : AddSet(r)
    \/ \E r \in Reqs : Respond(r)

CartSpec == Init /\ [][CartNext]_vars

\* Order placement with every kind of body (adjustments given or omitted,
\* address incomplete, payment method empty or unknown) and price changes of
\* the catalog, one request at a time, all by one owner.
PriceInputs == {N(20), 0 - N(1)}
Bodies ==
    {PlainBody(TRUE), PlainBody(FALSE),
     [PlainBody(TRUE) EXCEPT !.method = ""],
     [PlainBody(TRUE) EXCEPT !.method = "bitcoin"],
     [PlainBody(TRUE) EXCEPT !.tax = Given(N(1))],
     [PlainBody(TRUE) EXCEPT !.tax = Given(N(1)), !.shipping = Given(N(2)),
                             !.discount = Given(N(3))]}

SeqStartPlaceBody(u, items, body) == Alone(1) /\ StartPlaceBody(1, u, items, body)
SeqCatalogReprice(p, v) == req = <<>> /\ CatalogReprice(p, v)

BodyNext ==
    \/ \E items \in ItemLists, body \in Bodies :
          SeqStartPlaceBody("u1", items, body)
    \/ \E r \in Reqs : PlaceFind(r)
    \/ \E r \in Reqs : PlaceSave(r)
    \/ \E r \in Reqs : PlaceCreate(r)
    \/ \E r \in Reqs : PlaceClear(r)
    \/ \E p \in Contended, v \in PriceInputs : SeqCatalogReprice(p, v)
    \/ \E r \in Reqs : Respond(r)

BodySpec == Init /\ [][BodyNext]_vars

\* Orders of one line placed by u1, then catalog edits (price, name, soft
\* delete), status updates and cancellations, one request at a time.
NameInputs == {"A2"}
SnapLists == {l \in ItemLists : Len(l) = 1 /\ l[1].product \in Contended}
SnapStatuses == {"shipped", "delivered", "cancelled"}
SeqCatalogRename(p, name) == req = <<>> /\ CatalogRename(p, name)

SnapNext ==
    \/ \E items \in SnapLists : SeqStartPlace("u1", items, TRUE)
    \/ \E r \in Reqs : PlaceFind(r)
    \/ \E r \in Reqs : PlaceSave(r)
    \/ \E r \in Reqs : PlaceCreate(r)
    \/ \E r \in Reqs : PlaceClear(r)
    \/ \E id \in 1..MaxOrders, st \in SnapStatuses : SeqStartStatus(id, st, "u2")
    \/ \E r \in Reqs : StatusFind(r)
    \/ \E r \in Reqs : StatusSave(r)
    \/ \E id \in 1..MaxOrders, u \in Users : SeqStartCancel(id, u)
    \/ \E r \in Reqs : CancelFind(r)
    \/ \E r \in Reqs : CancelProductFind(r)
    \/ \E r \in Reqs : CancelProductSave(r)
    \/ \E r \in Reqs : CancelSave(r)
    \/ \E r \in Reqs : CancelDelete(r)
    \/ \E p \in Contended, v \in PriceInputs : SeqCatalogReprice(p, v)
    \/ \E p \in Contended, name \in NameInputs : SeqCatalogRename(p, name)
    \/ \E p \in Contended : SeqProductDelete(p)
    \/ \E r \in Reqs : Respond(r)

SnapSpec == Init /\ [][SnapNext]_vars

\* Interleaved placements of a one-piece order by u1 and status updates.
OnePieceOrder == <<[product |-> "A", quantity |-> N(1)]>>
DeliveryStatuses == {"pending", "delivered"}

StatusNext ==
    \/ \E r \in Reqs : StartPlace(r, "u1", OnePieceOrder, TRUE)
    \/ \E r \in Reqs : PlaceFind(r)
    \/ \E r \in Reqs : PlaceSave(r)
    \/ \E r \in Reqs : PlaceCreate(r)
    \/ \E r \in Reqs : PlaceClear(r)
    \/ \E r \in Reqs, id \in 1..MaxOrders, st \in DeliveryStatuses :
          StartStatus(r, id, st, "u2")
    \/ \E r \in Reqs : StatusFind(r)
    \/ \E r \in Reqs : StatusSave(r)
    \/ \E r \in Reqs : Respond(r)

StatusSpec == Init /\ [][StatusNext]_vars

\* Orders of three pieces placed by u1 one at a time, and cancellations by
\* u1 that interleave with each other.
ThreePieceOrder == <<[product |-> "A", quantity |-> N(3)]>>

CancelNext ==
    \/ SeqStartPlace("u1", ThreePieceOrder, TRUE)
    \/ \E r \in Reqs : PlaceFind(r)
    \/ \E r \in Reqs : PlaceSave(r)
    \/ \E r \in Reqs : PlaceCreate(r)
    \/ \E r \in Reqs : PlaceClear(r)
    \/ \E r \in Reqs, id \in 1..MaxOrders : StartCancel(r, id, "u1")
    \/ \E r \in Reqs : CancelFind(r)
    \/ \E r \in Reqs : CancelProductFind(r)
    \/ \E r \in Reqs : CancelProductSave(r)
    \/ \E r \in Reqs : CancelSave(r)
    \/ \E r \in Reqs : Respond(r)

CancelSpec == Init /\ [][CancelNext]_vars

\* Order placement by u1 with items whose quantity is not validated: one,
\* zero, negative or missing; one request at a time.
LooseLines ==
    [product : Contended, quantity : {N(1), 0, 0 - N(1)}]
        \cup [product : Contended]
LooseLists == UNION {[1..n -> LooseLines] : n \in 1..MaxLines}

LooseNext ==
    \/ \E items \in LooseLists : SeqStartPlace("u1", items, TRUE)
    \/ \E r \in Reqs : PlaceFind(r)
    \/ \E r \in Reqs : PlaceSave(r)
    \/ \E r \in Reqs : PlaceCreate(r)
    \/ \E r \in Reqs : PlaceClear(r)
    \/ \E r \in Reqs : Respond(r)

LooseSpec == Init /\ [][LooseNext]_vars

\* The category routes, one request at a time. An _id is 24 hexadecimal
\* characters; the ones drawn here differ in their first characters.
Padded(prefix) ==
    prefix \o [i \in 1..(ObjectIdLength - Len(prefix)) |-> "f"]
OpaqueIds == {Padded(<<"1">>), Padded(<<"2">>), Padded(<<"a">>), Padded(<<"1", "2">>)}
IdInputs == OpaqueIds \cup {<<"1">>, <<"2">>, <<"z">>, NullText}

CategoryNext ==
    \/ \E oid \in OpaqueIds : CategoryCreate(oid)
    \/ \E id \in IdInputs : CategoryGet(id)
    \/ \E id \in IdInputs : CategoryUpdate(id, "edited")
    \/ \E id \in IdInputs : CategoryDelete(id)

CategorySpec == Init /\ [][CategoryNext]_vars

\* ------------------------------------------------------------ properties
\* A call that has just answered and ran alone from start to answer.
Isolated(r) == Active(r) /\ req[r].pc = "done" /\ req[r].pre # NoSnap

Quiescent == \A r \in Reqs : ~Running(r)

\* Quantity of product p held by the orders that are not cancelled.
RECURSIVE HeldBy(_, _)
HeldBy(ids, p) ==
    IF ids = {} THEN 0
    ELSE LET i == CHOOSE j \in ids : TRUE
         IN  (IF orders[i].status # "cancelled" THEN QtyOf(orders[i].items, p) ELSE 0)
             + HeldBy(ids \ {i}, p)

\* C1: in every reachable state the stock of every product is an integer
\* that is at least 0.
C1_StockIsNonNegativeInteger ==
    \A p \in Products : IsInteger(products[p].stock) /\ products[p].stock >= 0

\* C2: product A starts at 5 and the only two requests received are placeOrder
\* calls for 3 of A each: a call that answers when the other call's order of 3
\* exists ends with InsufficientStock and the stock is 2 (exactly one succeeds,
\* nothing is deducted for both).
OrderOfThree(items) == Len(items) = 1 /\ QtyOf(items, "A") = N(3)
C2_ExactlyOneOfTwoSucceeds ==
    \A r \in Reqs :
        (/\ calls = 2
         /\ Active(r) /\ req[r].pc = "done" /\ req[r].op = "placeOrder"
         /\ OrderOfThree(req[r].items)
         /\ \E i \in DOMAIN orders : i # req[r].id /\ OrderOfThree(orders[i].items))
        => /\ req[r].err = "InsufficientStock"
           /\ products["A"].stock = N(2)

\* C3: a placeOrder call that fails on a line (NotFound or InsufficientStock)
\* leaves every product reserved by its earlier lines at the quantity it had
\* before the call.
C3_FailedOrderRestoresEarlierLines ==
    \A r \in Reqs :
        (/\ Isolated(r) /\ req[r].op = "placeOrder"
         /\ req[r].err \in {"NotFound", "InsufficientStock"})
        => \A i \in 1..(req[r].idx - 1) :
              products[req[r].items[i].product].stock
                 = req[r].pre.products[req[r].items[i].product].stock

\* C4: a placeOrder call with a line asking for more than the product's
\* available quantity fails with InsufficientStock and leaves that product's
\* quantity unchanged.
ExcessLine(r, i) ==
    req[r].items[i].quantity > req[r].pre.products[req[r].items[i].product].stock
C4_ExcessLineRejectedWithoutEffect ==
    \A r \in Reqs :
        (/\ Isolated(r) /\ req[r].op = "placeOrder"
         /\ \A i \in DOMAIN req[r].items : req[r].items[i].product \in Products
         /\ \E i \in DOMAIN req[r].items : ExcessLine(r, i))
        => /\ req[r].err = "InsufficientStock"
           /\ \A i \in DOMAIN req[r].items :
                 ExcessLine(r, i) =>
                    products[req[r].items[i].product].stock
                       = req[r].pre.products[req[r].items[i].product].stock

\* C5: while only placeOrder and owner cancellations have been received and no
\* call is in progress, what is missing from each product's initial quantity
\* is exactly the quantity held by the orders that are not cancelled.
C5_StockConservation ==
    (plain /\ Quiescent)
    => \A p \in Products :
          InitStock[p] - products[p].stock = HeldBy(DOMAIN orders, p)

\* C6: a cancelOrRemove by the non-privileged owner of a pending order answers
\* success, adds to each product the quantity of that product's order lines and
\* changes the order in its status only, to cancelled; on an order that is
\* already cancelled it answers success and changes no product and no order.
OwnerCancel(r) ==
    /\ Isolated(r) /\ req[r].op = "cancelOrRemove" /\ req[r].role # "admin"
    /\ req[r].id \in DOMAIN req[r].pre.orders
    /\ req[r].pre.orders[req[r].id].user = req[r].user
C6_OwnerCancelRestoresOnce ==
    \A r \in Reqs :
        OwnerCancel(r) =>
          LET was == req[r].pre.orders[req[r].id]
          IN  /\ was.status = "pending" =>
                   /\ req[r].code = 200
                   /\ \A p \in Products :
                         products[p].stock
                            = req[r].pre.products[p].stock + QtyOf(was.items, p)
                   /\ orders = [req[r].pre.orders EXCEPT
                                   ![req[r].id].status = "cancelled"]
              /\ was.status = "cancelled" =>
                   /\ req[r].code = 200
                   /\ products = req[r].pre.products
                   /\ orders = req[r].pre.orders

\* The owner's second cancellation has answered: the order was placed, then
\* cancelled by its owner (the stock is back at its initial value), then
\* cancelled again.
C6_Witness ==
    \E r \in Reqs :
        /\ OwnerCancel(r) /\ calls = 3 /\ plain
        /\ req[r].pre.orders[req[r].id].status = "cancelled"
        /\ QtyOf(req[r].pre.orders[req[r].id].items, "A") > 0
        /\ products["A"].stock = InitStock["A"]
        /\ req[r].code = 200

\* C7: updateStatus (by a privileged role) on a delivered order with another
\* status fails with InvalidTransition and the order stays delivered.
C7_DeliveredRejectsUpdate ==
    \A r \in Reqs :
        (/\ Isolated(r) /\ req[r].op = "updateStatus" /\ req[r].role = "admin"
         /\ req[r].id \in DOMAIN req[r].pre.orders
         /\ req[r].pre.orders[req[r].id].status = "delivered"
         /\ req[r].status \in Statuses \ {"delivered"})
        => /\ req[r].err = "InvalidTransition"
           /\ orders[req[r].id].status = "delivered"

\* C8: no successful updateStatus (by a privileged role) moves an order to an earlier status of
\* pending -> processing -> shipped -> delivered (cancelled is final).
Rank(st) ==
    CASE st = "pending" -> 1 [] st = "processing" -> 2 [] st = "shipped" -> 3
      [] st = "delivered" -> 4 [] OTHER -> 5
C8_StatusNeverMovesBack ==
    \A r \in Reqs :
        (/\ Isolated(r) /\ req[r].op = "updateStatus" /\ req[r].role = "admin"
         /\ req[r].code = 200
         /\ req[r].id \in DOMAIN req[r].pre.orders)
        => Rank(orders[req[r].id].status)
              >= Rank(req[r].pre.orders[req[r].id].status)

\* C9: an order that is delivered or cancelled keeps its status through every
\* updateStatus (of a privileged role) and every cancelOrRemove of its non-privileged owner, and the
\* owner's cancelOrRemove of a delivered order changes no stock.
C9_TerminalStatusesStay ==
    \A r \in Reqs :
        (/\ Isolated(r)
         /\ (req[r].op = "updateStatus" /\ req[r].role = "admin") \/ OwnerCancel(r)
         /\ req[r].id \in DOMAIN req[r].pre.orders
         /\ req[r].pre.orders[req[r].id].status \in {"delivered", "cancelled"})
        => /\ req[r].id \in DOMAIN orders
           /\ orders[req[r].id].status = req[r].pre.orders[req[r].id].status
           /\ (req[r].op = "cancelOrRemove"
                 /\ req[r].pre.orders[req[r].id].status = "delivered")
              => products = req[r].pre.products

\* C10: updateStatus by a non-privileged role fails with Forbidden and leaves
\* the order as it was; on a missing order it fails with NotFound.
C10_UpdateStatusNeedsPrivilege ==
    \A r \in Reqs :
        (Isolated(r) /\ req[r].op = "updateStatus" /\ req[r].status \in Statuses)
        => /\ (req[r].id \notin DOMAIN req[r].pre.orders /\ req[r].role = "admin")
                 => req[r].err = "NotFound"
           /\ (req[r].id \in DOMAIN req[r].pre.orders /\ req[r].role # "admin")
                 => /\ req[r].err = "Forbidden"
                    /\ orders = req[r].pre.orders
\* C11: cancelOrRemove on a missing order fails with NotFound, and by an
\* identity that is neither the order's owner nor privileged fails with
\* Forbidden; in both cases no order and no product quantity changes.
CancelRefused(r) ==
    /\ Isolated(r) /\ req[r].op = "cancelOrRemove"
    /\ \/ req[r].id \notin DOMAIN req[r].pre.orders
       \/ /\ req[r].pre.orders[req[r].id].user # req[r].user
          /\ req[r].role # "admin"
C11_CancelRefusedWithoutEffect ==
    \A r \in Reqs :
        CancelRefused(r) =>
           /\ req[r].err = (IF req[r].id \in DOMAIN req[r].pre.orders
                            THEN "Forbidden" ELSE "NotFound")
           /\ orders = req[r].pre.orders
           /\ products = req[r].pre.products

\* A non-privileged identity has asked to cancel an order of another owner
\* and got its answer.
C11_Witness ==
    \E r \in Reqs :
        /\ CancelRefused(r) /\ req[r].id \in DOMAIN req[r].pre.orders
        /\ req[r].err = "Forbidden" /\ req[r].code = 403

\* C12: cancelOrRemove by a privileged role removes the order record and
\* leaves the quantity of every product unchanged, whatever the order's status.
PrivilegedRemove(r) ==
    /\ Isolated(r) /\ req[r].op = "cancelOrRemove" /\ req[r].role = "admin"
    /\ req[r].id \in DOMAIN req[r].pre.orders
C12_PrivilegedRemoveKeepsStock ==
    \A r \in Reqs :
        PrivilegedRemove(r) =>
           /\ req[r].code = 200
           /\ orders = [i \in DOMAIN req[r].pre.orders \ {req[r].id}
                           |-> req[r].pre.orders[i]]
           /\ products = req[r].pre.products

\* A privileged role has removed an order that was not cancelled and held
\* stock.
C12_Witness ==
    \E r \in Reqs :
        /\ PrivilegedRemove(r) /\ req[r].code = 200
        /\ req[r].pre.orders[req[r].id].status # "cancelled"
        /\ QtyOf(req[r].pre.orders[req[r].id].items, "A") > 0
        /\ req[r].id \notin DOMAIN orders

\* C13: an owner's cancellation of an order that is not cancelled ends with
\* the order cancelled and a success answer even when the release of one line
\* fails, and every line but the failed one is released.
RECURSIVE QtyExcept(_, _, _)
QtyExcept(items, p, k) ==
    IF items = <<>> THEN 0
    ELSE (IF Len(items) # k /\ items[Len(items)].product = p
          THEN items[Len(items)].quantity ELSE 0)
         + QtyExcept(SubSeq(items, 1, Len(items) - 1), p, k)
C13_LineFailureDoesNotAbort ==
    \A r \in Reqs :
        (OwnerCancel(r) /\ req[r].pre.orders[req[r].id].status # "cancelled")
        => LET was == req[r].pre.orders[req[r].id]
               failed == IF req[r].err = "ServerError" THEN req[r].idx ELSE 0
           IN  /\ req[r].code = 200
               /\ req[r].id \in DOMAIN orders
               /\ orders[req[r].id].status = "cancelled"
               /\ \A p \in Products :
                     products[p].stock
                        = req[r].pre.products[p].stock + QtyExcept(was.items, p, failed)

\* The cart documents of an owner, and the owner's cart in a collection.
CartsOf(cs, u) == {i \in DOMAIN cs : cs[i].user = u}
CartOf(cs, u) == cs[CartIndex(cs, u)]

\* Sum over the lines of quantity times unit price (in units of 1 / Unit).
RECURSIVE Value(_)
Value(items) ==
    IF items = <<>> THEN 0
    ELSE (Head(items).quantity * Head(items).price) \div Unit + Value(Tail(items))
RECURSIVE Subtotal(_)
Subtotal(items) ==
    IF items = <<>> THEN 0 ELSE Head(items).total + Subtotal(Tail(items))

\* C14: placeOrder without explicit items, by an owner whose cart holds lines,
\* creates an order of the cart's lines whose subtotal is the sum of quantity
\* times price (cart (A, 2, 10.00): subtotal 20.00), and afterwards the
\* owner's cart holds no items.
CheckoutFromCart(r) ==
    /\ Isolated(r) /\ req[r].op = "placeOrder" /\ req[r].items = <<>>
    /\ CartsOf(req[r].pre.carts, req[r].user) # {}
    /\ CartOf(req[r].pre.carts, req[r].user).items # <<>>
C14_PlaceOrderUsesCart ==
    \A r \in Reqs :
        CheckoutFromCart(r) =>
           LET cart == CartOf(req[r].pre.carts, req[r].user)
           IN  /\ req[r].code = 201
               /\ \E i \in DOMAIN orders \ DOMAIN req[r].pre.orders :
                     /\ orders[i].user = req[r].user
                     /\ Len(orders[i].items) = Len(cart.items)
                     /\ \A j \in DOMAIN cart.items :
                           /\ orders[i].items[j].product = cart.items[j].product
                           /\ orders[i].items[j].quantity = cart.items[j].quantity
                     /\ Subtotal(orders[i].items) = Value(cart.items)
               /\ \A i \in CartsOf(carts, req[r].user) : carts[i].items = <<>>

\* C15: every cart holds at most one line per product; an addItem of a
\* product the owner's cart already holds merges into that line (3 then 4
\* gives 7) when the merged total is within the product's stock, and else
\* fails with InsufficientStock and leaves the cart as it was.
OneLinePerProduct(cs) ==
    \A i \in DOMAIN cs : \A j, k \in DOMAIN cs[i].items :
        cs[i].items[j].product = cs[i].items[k].product => j = k
AddToHeldProduct(r) ==
    /\ Isolated(r) /\ req[r].op = "addItem" /\ QuantityValid(req[r].qty)
    /\ req[r].pid \in Products /\ req[r].pre.products[req[r].pid].isActive
    /\ CartsOf(req[r].pre.carts, req[r].user) # {}
    /\ LineOfProduct(CartOf(req[r].pre.carts, req[r].user).items, req[r].pid) # 0
C15_AddItemMergesLines ==
    /\ OneLinePerProduct(carts)
    /\ \A r \in Reqs :
          AddToHeldProduct(r) =>
             LET i == CartIndex(req[r].pre.carts, req[r].user)
                 j == LineOfProduct(req[r].pre.carts[i].items, req[r].pid)
                 merged == req[r].pre.carts[i].items[j].quantity + req[r].qty.n
             IN  IF merged <= req[r].pre.products[req[r].pid].stock
                 THEN /\ req[r].code = 200
                      /\ Len(carts) = Len(req[r].pre.carts)
                      /\ carts[i].items =
                            [req[r].pre.carts[i].items EXCEPT ![j].quantity = merged]
                 ELSE /\ req[r].err = "InsufficientStock"
                      /\ carts = req[r].pre.carts

\* C16: addItem fails with NotFound for a missing product, Unavailable for an
\* inactive one and InsufficientStock when the quantity exceeds the stock,
\* changing no cart; otherwise, for a product the cart does not hold yet, it
\* appends exactly one line with the requested quantity and the product's
\* current price.
AddCall(r) == Isolated(r) /\ req[r].op = "addItem" /\ QuantityValid(req[r].qty)
HeldLines(cs, u) == IF CartsOf(cs, u) = {} THEN <<>> ELSE CartOf(cs, u).items
C16_AddItemChecksThenAppends ==
    \A r \in Reqs :
        AddCall(r) =>
           LET p == req[r].pid
               was == HeldLines(req[r].pre.carts, req[r].user)
           IN  IF p \notin Products
               THEN req[r].err = "NotFound" /\ carts = req[r].pre.carts
               ELSE IF ~req[r].pre.products[p].isActive
               THEN req[r].err = "Unavailable" /\ carts = req[r].pre.carts
               ELSE IF req[r].qty.n > req[r].pre.products[p].stock
               THEN req[r].err = "InsufficientStock" /\ carts = req[r].pre.carts
               ELSE LineOfProduct(was, p) = 0 =>
                      /\ req[r].code = 200
                      /\ CartsOf(carts, req[r].user) # {}
                      /\ LET now == CartOf(carts, req[r].user).items
                         IN  /\ Len(now) = Len(was) + 1
                             /\ SubSeq(now, 1, Len(was)) = was
                             /\ now[Len(now)].product = p
                             /\ now[Len(now)].quantity = req[r].qty.n
                             /\ now[Len(now)].price = req[r].pre.products[p].price

\* An addItem has appended a line to a cart that already existed.
C16_Witness ==
    \E r \in Reqs :
        /\ AddCall(r) /\ req[r].code = 200
        /\ CartsOf(req[r].pre.carts, req[r].user) # {}
        /\ Len(CartOf(carts, req[r].user).items)
              = Len(CartOf(req[r].pre.carts, req[r].user).items) + 1

\* C17: updateItem fails with NotFound when the owner has no cart or the cart
\* has no line with the item id; else it fails with InsufficientStock, the
\* line unchanged, when the new quantity exceeds the product's stock, and
\* otherwise sets the line's quantity to the new quantity, every other line
\* unchanged.
UpdateCall(r) == Isolated(r) /\ req[r].op = "updateItem" /\ QuantityValid(req[r].qty)
C17_UpdateItemReplacesQuantity ==
    \A r \in Reqs :
        UpdateCall(r) =>
           LET was == req[r].pre.carts
               i == CartIndex(was, req[r].user)
               j == LineOfId(was[i].items, req[r].id)
           IN  IF i = 0 \/ j = 0
               THEN req[r].err = "NotFound" /\ carts = was
               ELSE IF req[r].qty.n > req[r].pre.products[was[i].items[j].product].stock
               THEN req[r].err = "InsufficientStock" /\ carts = was
               ELSE /\ req[r].code = 200
                    /\ carts = [was EXCEPT ![i].items[j].quantity = req[r].qty.n]

\* An updateItem has changed the quantity of one line of a cart of two lines.
C17_Witness ==
    \E r \in Reqs :
        /\ UpdateCall(r) /\ req[r].code = 200
        /\ carts # req[r].pre.carts
        /\ Len(CartOf(carts, req[r].user).items) = 2
        /\ CartOf(carts, req[r].user).items[1].quantity = req[r].qty.n

\* C18: removeItem fails with NotFound only when the owner has no cart; with a
\* cart it succeeds, takes out the line with the item id and nothing else,
\* and with an id the cart does not hold it leaves the lines as they were (so
\* a second removeItem of the same id changes nothing).
RemoveCall(r) == Isolated(r) /\ req[r].op = "removeItem"
Contents(cs) == [i \in DOMAIN cs |-> [user |-> cs[i].user, items |-> cs[i].items]]
C18_RemoveItemIdempotent ==
    \A r \in Reqs :
        RemoveCall(r) =>
           LET was == req[r].pre.carts
               i == CartIndex(was, req[r].user)
               j == LineOfId(was[i].items, req[r].id)
           IN  IF i = 0
               THEN req[r].err = "NotFound" /\ carts = was
               ELSE /\ req[r].code = 200
                    /\ Contents(carts) =
                          [Contents(was) EXCEPT ![i].items =
                             IF j = 0 THEN @
                             ELSE SubSeq(@, 1, j - 1) \o SubSeq(@, j + 1, Len(@))]

\* A removeItem has succeeded for a line id that was handed out earlier and
\* that no cart holds any more (the line was taken out before).
C18_Witness ==
    \E r \in Reqs :
        /\ RemoveCall(r) /\ req[r].code = 200
        /\ req[r].id <= nextItem
        /\ \A i \in DOMAIN req[r].pre.carts :
              /\ req[r].pre.carts[i].id # req[r].id
              /\ LineOfId(req[r].pre.carts[i].items, req[r].id) = 0
        /\ Contents(carts) = Contents(req[r].pre.carts)

\* C19: clear fails with NotFound only when the owner has no cart, and else
\* succeeds, keeps the cart record and empties its lines; an owner has no
\* cart right after a successful placeOrder (so clear then fails NotFound).
ClearCall(r) == Isolated(r) /\ req[r].op = "clear"
C19_ClearEmptiesAndKeepsCart ==
    \A r \in Reqs :
        /\ ClearCall(r) =>
              LET was == req[r].pre.carts
                  i == CartIndex(was, req[r].user)
              IN  IF i = 0
                  THEN req[r].err = "NotFound" /\ carts = was
                  ELSE /\ req[r].code = 200
                       /\ Contents(carts) = [Contents(was) EXCEPT ![i].items = <<>>]
                       /\ carts[i].id = was[i].id
        /\ (Isolated(r) /\ req[r].op = "placeOrder" /\ req[r].code = 201)
              => CartsOf(carts, req[r].user) = {}

\* A clear has answered NotFound to an owner who has an order, after a
\* cart had been created and was deleted again.
C19_Witness ==
    \E r \in Reqs :
        /\ ClearCall(r) /\ req[r].err = "NotFound" /\ req[r].code = 404
        /\ nextItem > 0 /\ carts = <<>>
        /\ \E i \in DOMAIN orders : orders[i].user = req[r].user

\* No owner has two cart records.
AtMostOneCart == \A u \in Users : Cardinality(CartsOf(carts, u)) <= 1

\* A getOrCreate call that has answered returned the owner's cart.
GetReturnsCart ==
    \A r \in Reqs :
        (Active(r) /\ req[r].pc = "done" /\ req[r].op = "getOrCreate")
            => req[r].code = 200 /\ CartIndex(carts, req[r].user) # 0

\* C20: in every reachable state an owner has at most one cart, and
\* getOrCreate returns the existing cart or creates an empty one, under any
\* interleaving of getOrCreate and addItem calls of the same owner.
C20_OneCartPerOwner == AtMostOneCart /\ GetReturnsCart

\* C21: in every order, each line total is unit price times quantity, the
\* subtotal is the sum of the line totals and total = subtotal + tax +
\* shipping - discount; the adjustments of an order are those of the request,
\* 0 where the request omits them.
Adjustment(a) == IF a.given THEN a.n ELSE 0
LinesKept ==
    \A i \in DOMAIN orders : i \in DOMAIN orders' => orders'[i].items = orders[i].items
C22_OrderLinesFrozen == [][LinesKept]_vars

\* An order whose line differs from the product (renamed, repriced or
\* deactivated after placement) and whose status has been changed.
C22_Witness ==
    \E i \in DOMAIN orders :
        /\ orders[i].status # DefaultStatus
        /\ LET l == orders[i].items[1]
           IN  \/ l.price # products[l.product].price
               \/ l.name # products[l.product].name
               \/ ~products[l.product].isActive

\* C23: when the cart deletion of a placeOrder fails after the order was
\* persisted, the order stays persisted with its lines and the products stay
\* deducted by the quantities of the order.
ClearFailed(r) ==
    /\ Isolated(r) /\ req[r].op = "placeOrder"
    /\ req[r].err = "ServerError" /\ req[r].id # 0
C23_ClearFailureKeepsOrder ==
    \A r \in Reqs :
        ClearFailed(r) =>
            /\ req[r].id \notin DOMAIN req[r].pre.orders
            /\ DOMAIN orders = DOMAIN req[r].pre.orders \cup {req[r].id}
            /\ \A i \in DOMAIN req[r].pre.orders : orders[i] = req[r].pre.orders[i]
            /\ Len(orders[req[r].id].items) = Len(req[r].items)
            /\ \A p \in Products :
                  /\ QtyOf(orders[req[r].id].items, p) = QtyOf(req[r].items, p)
                  /\ products[p].stock
                        = req[r].pre.products[p].stock - QtyOf(req[r].items, p)

\* The cart deletion of an order has failed and the owner's cart is still
\* there with its line.
C23_Witness ==
    \E r \in Reqs :
        /\ ClearFailed(r) /\ req[r].code = 500
        /\ products["A"].stock < InitStock["A"]
        /\ CartIndex(carts, req[r].user) # 0
        /\ CartOf(carts, req[r].user).items # <<>>

\* C29: a placeOrder call that returns an error creates no order and leaves
\* the owner's cart unchanged; an order record exists only for calls that
\* returned the created order.
PlaceCall(r) == Isolated(r) /\ req[r].op = "placeOrder"
C29_ErrorMeansNoOrder ==
    \A r \in Reqs :
        (PlaceCall(r) /\ req[r].code # 201) =>
            /\ orders = req[r].pre.orders
            /\ carts = req[r].pre.carts

\* C24: placeOrder with an empty item list, an incomplete shipping address or
\* an unknown payment method fails with ValidationError and has no effect:
\* no stock changes, no order is created, the carts are unchanged.
Malformed(items, body) ==
    items = <<>> \/ ~body.address \/ body.method \notin KnownMethods
C24_ValidationBeforeEffects ==
    \A r \in Reqs :
        (PlaceCall(r) /\ Malformed(req[r].items, req[r].body)) =>
            /\ req[r].err = "ValidationError"
            /\ products = req[r].pre.products
            /\ orders = req[r].pre.orders
            /\ carts = req[r].pre.carts

\* C25: every order with status delivered carries a delivery timestamp and
\* the payment status paid; an updateStatus to delivered that succeeded
\* alone has set the three fields together.
C25_DeliveredIsStampedAndPaid ==
    /\ \A i \in DOMAIN orders :
          orders[i].status = "delivered" =>
              orders[i].deliveredAt # NoDate /\ orders[i].paymentStatus = "paid"
    /\ \A r \in Reqs :
          (Isolated(r) /\ req[r].op = "updateStatus" /\ req[r].code = 200
              /\ req[r].status = "delivered") =>
                  /\ orders[req[r].id].status = "delivered"
                  /\ orders[req[r].id].deliveredAt = calls
                  /\ orders[req[r].id].paymentStatus = "paid"

\* An updateStatus to delivered has just succeeded on an order that was
\* not delivered before.
C25_Witness ==
    \E r \in Reqs :
        /\ Isolated(r) /\ req[r].op = "updateStatus" /\ req[r].code = 200
        /\ req[r].status = "delivered"
        /\ req[r].pre.orders[req[r].id].status # "delivered"
        /\ orders[req[r].id].status = "delivered"

\* C26: cancellations by the owner that interleave on one order release its
\* quantities once: when every call has answered, each product is back at
\* its initial quantity less what the orders that are not cancelled hold.
C26_ConcurrentCancelReleasesOnce ==
    (Quiescent /\ \E i \in DOMAIN orders : orders[i].status = "cancelled")
    => \A p \in Products :
          products[p].stock = InitStock[p] - HeldBy(DOMAIN orders, p)

\* C27: no placeOrder call increases the quantity of a product, whatever
\* the quantities of its items are (zero, negative or missing included).
C27_PlaceOrderNeverAddsStock ==
    \A r \in Reqs :
        PlaceCall(r) =>
            \A p \in Products : products[p].stock <= req[r].pre.products[p].stock

\* C28: an order is cancelled only with its quantities returned to stock:
\* an updateStatus that moves an order to cancelled adds the quantities of
\* its lines to the products, and the owner's cancelOrRemove of an order
\* that is already cancelled changes nothing.
StatusCancel(r) ==
    /\ Isolated(r) /\ req[r].op = "updateStatus" /\ req[r].code = 200
    /\ req[r].status = "cancelled"
    /\ req[r].pre.orders[req[r].id].status # "cancelled"
C28_CancelledMeansReturned ==
    \A r \in Reqs :
        /\ StatusCancel(r) =>
              /\ orders[req[r].id].status = "cancelled"
              /\ \A p \in Products :
                    products[p].stock
                       = req[r].pre.products[p].stock
                            + QtyOf(req[r].pre.orders[req[r].id].items, p)
        /\ (OwnerCancel(r) /\ req[r].pre.orders[req[r].id].status = "cancelled") =>
              products = req[r].pre.products

\* C30: a category request by id (get, update, delete) whose id is an opaque
\* 24-hex-digit id resolves to the category with that _id, or answers
\* NotFound when there is none; it never reads, changes or deletes another
\* category.
Others(cats, id) == {cats[i] : i \in {j \in DOMAIN cats : cats[j].id # id}}
C30_OpaqueIdResolvesToItself ==
    (lookup.op # "none" /\ IsObjectId(lookup.id)) =>
        /\ IF \E i \in DOMAIN lookup.before : lookup.before[i].id = lookup.id
           THEN lookup.code = 200 /\ lookup.hit = lookup.id
           ELSE lookup.code = 404
        /\ Others(lookup.after, lookup.id) = Others(lookup.before, lookup.id)

====
